---------------------------- MODULE Spec2Model ----------------------------
(***************************************************************************)
(* Model of the statistical core of climate-data-analyzer and of two of    *)
(* its utilities:                                                          *)
(*   src/src/analysis/anomaly_detection.py  (AnomalyDetector)              *)
(*   src/src/analysis/trend_analysis.py     (TrendAnalyzer)                *)
(*   src/src/utils/parallel.py              (parallel_map)                 *)
(*   src/src/utils/date_parser.py           (DateParser)                   *)
(*                                                                         *)
(* Specifications.  Spec: one caller, one call at a time on the analyzers. *)
(* SpecThreads: two callers inside detect_isolation_forest of one          *)
(* detector.  SpecPool: one call of parallel_map or chunked_parallel_map.  *)
(* SpecParser: the calls of parse on one DateParser.  Each specification   *)
(* leaves the state of the others as it starts.                            *)
(*                                                                         *)
(* Numbers.  The code computes in IEEE doubles; the model computes in      *)
(* exact rationals <<num, den>> with den > 0 and gcd(num, den) = 1.  The   *)
(* non-finite doubles numpy produces on a division by zero are kept:       *)
(* <<1,0>> is +inf, <<-1,0>> is -inf, <<0,0>> is nan.  A value that needs  *)
(* a square root, x / sqrt(r) or x * sqrt(r), is kept symbolically as a    *)
(* record of its rational parts.  Indices are 0-based as in the code;      *)
(* TLA+ sequences are 1-based, so data[i] of the code is data[i+1] here.   *)
(***************************************************************************)
EXTENDS Integers, Sequences, FiniteSets

(***************************************************************************)
(* Bounds of the model.                                                    *)
(***************************************************************************)
MaxLen == 3
MaxVal == 2
MaxPeriod == 4
MaxItems == 3

(***************************************************************************)
(* Rational arithmetic.                                                    *)
(***************************************************************************)
IAbs(x) == IF x < 0 THEN -x ELSE x

ISign(x) == IF x > 0 THEN 1 ELSE IF x < 0 THEN -1 ELSE 0

RECURSIVE Gcd(_, _)
Gcd(a, b) == IF b = 0 THEN a ELSE Gcd(b, a % b)

Rat(n, d) ==
  LET g == Gcd(IAbs(n), IAbs(d))
      s == IF d < 0 THEN -1 ELSE 1
  IN  <<(s * n) \div g, IAbs(d) \div g>>

RInt(k) == <<k, 1>>
NaN == <<0, 0>>
PosInf == <<1, 0>>
IsFinite(x) == x[2] # 0

RAdd(x, y) == Rat(x[1] * y[2] + y[1] * x[2], x[2] * y[2])
RSub(x, y) == Rat(x[1] * y[2] - y[1] * x[2], x[2] * y[2])
RMul(x, y) == Rat(x[1] * y[1], x[2] * y[2])
RNeg(x) == <<-x[1], x[2]>>
RAbs(x) == <<IAbs(x[1]), x[2]>>
RLt(x, y) == x[1] * y[2] < y[1] * x[2]
RLe(x, y) == x[1] * y[2] <= y[1] * x[2]

\* Mutant of NpDivide: a zero divisor gives nan whatever the dividend.
NpDivideNan(x, y) ==
  IF y[1] = 0 THEN <<0, 0>> ELSE Rat(x[1] * y[2], x[2] * y[1])

\* numpy true division of doubles: x / 0 is +-inf or nan (a RuntimeWarning,
\* no exception).
NpDivide(x, y) ==
  IF y[1] = 0 THEN <<ISign(x[1]), 0>> ELSE Rat(x[1] * y[2], x[2] * y[1])

\* Python division of ints raises ZeroDivisionError on a zero divisor; the
\* callers guard it.
PyDivide(a, b) == Rat(a, b)

ToRat(s) == [i \in 1..Len(s) |-> RInt(s[i])]

RECURSIVE RSum(_)
RSum(s) == IF s = <<>> THEN RInt(0) ELSE RAdd(Head(s), RSum(Tail(s)))

RECURSIVE InsertR(_, _)
InsertR(x, s) ==
  IF s = <<>> THEN <<x>>
  ELSE IF RLe(x, Head(s)) THEN <<x>> \o s
  ELSE <<Head(s)>> \o InsertR(x, Tail(s))

RECURSIVE SortR(_)
SortR(s) == IF s = <<>> THEN <<>> ELSE InsertR(Head(s), SortR(Tail(s)))

(***************************************************************************)
(* numpy reductions over a sequence of rationals.                          *)
(***************************************************************************)
\* np.mean: nan on an empty array.
NpMean(s) == IF s = <<>> THEN NaN ELSE NpDivide(RSum(s), RInt(Len(s)))

\* np.median: the middle of the sorted values, or the mean of the two
\* middle ones; nan on an empty array.
NpMedian(s) ==
  LET n == Len(s)
      t == SortR(s)
  IN  IF n = 0 THEN NaN
      ELSE IF n % 2 = 1 THEN t[(n + 1) \div 2]
      ELSE NpDivide(RAdd(t[n \div 2], t[n \div 2 + 1]), RInt(2))

\* Mutant of NpPercentile: the lower neighbour, no interpolation.
NpPercentileLower(s, q) ==
  LET t == SortR(s)
  IN  t[(q * (Len(s) - 1)) \div 100 + 1]

\* np.percentile(s, q), method "linear", for a non-empty s: the virtual
\* index q/100 * (n-1) is interpolated between its two neighbours.
NpPercentile(s, q) ==
  LET n == Len(s)
      t == SortR(s)
      h == q * (n - 1)
      lo == h \div 100 + 1
      hi == IF lo + 1 > n THEN n ELSE lo + 1
      frac == Rat(h % 100, 100)
  IN  RAdd(t[lo], RMul(frac, RSub(t[hi], t[lo])))

\* The square of np.std (population variance) of a non-empty s.
NpVar(s) ==
  LET m == NpMean(s)
      dev == [i \in 1..Len(s) |-> RMul(RSub(s[i], m), RSub(s[i], m))]
  IN  NpMean(dev)

(***************************************************************************)
(* TrendAnalyzer (trend_analysis.py).                                      *)
(***************************************************************************)
\* TrendAnalyzer.__init__: significance_level = 0.05, in percent.
SignificanceLevelPct == 5

\* One pass of the inner loop "for j in range(i + 1, n)" of
\* mann_kendall_test, from j on, accumulating into s.
RECURSIVE MannKendallInner(_, _, _, _)
MannKendallInner(data, i, j, s) ==
  IF j > Len(data) THEN s
  ELSE LET diff == data[j] - data[i]
           s1 == IF diff > 0 THEN s + 1 ELSE IF diff < 0 THEN s - 1 ELSE s
       IN  MannKendallInner(data, i, j + 1, s1)

\* The outer loop "for i in range(n - 1)", from i on.
RECURSIVE MannKendallOuter(_, _, _)
MannKendallOuter(data, i, s) ==
  IF i > Len(data) - 1 THEN s
  ELSE MannKendallOuter(data, i + 1, MannKendallInner(data, i, i + 1, s))

\* Mutant of MannKendallS: the outer loop starts at the second point.
MannKendallSFromSecond(data) == MannKendallOuter(data, 2, 0)

\* The statistic s that mann_kendall_test accumulates.
MannKendallS(data) == MannKendallOuter(data, 1, 0)

\* var_s = (n * (n - 1) * (2 * n + 5)) / 18
MannKendallVarS(n) == PyDivide(n * (n - 1) * (2 * n + 5), 18)

\* Mutant of MannKendallZ: no continuity correction.
MannKendallZUncorrected(s, n) ==
  IF s = 0 THEN [num |-> RInt(0), rad |-> RInt(1)]
  ELSE [num |-> RInt(s), rad |-> MannKendallVarS(n)]

\* z = (s -+ 1) / np.sqrt(var_s), kept as num / sqrt(rad); the int 0 when
\* s == 0.
MannKendallZ(s, n) ==
  IF s > 0 THEN [num |-> RInt(s - 1), rad |-> MannKendallVarS(n)]
  ELSE IF s < 0 THEN [num |-> RInt(s + 1), rad |-> MannKendallVarS(n)]
  ELSE [num |-> RInt(0), rad |-> RInt(1)]

\* The sign of num / sqrt(rad) for rad > 0.
SurdSign(z) == ISign(z.num[1])

\* "if z > 0 ... elif z < 0 ... else"
TrendDirection(z) ==
  IF SurdSign(z) > 0 THEN "increasing"
  ELSE IF SurdSign(z) < 0 THEN "decreasing"
  ELSE "no trend"

\* p_value = 2 * (1 - stats.norm.cdf(abs(z))): strictly decreasing in
\* abs(z), and kept as the abs(z) it is the two-sided tail of.
PValue(z) == [two_sided_tail_of |-> [num |-> RAbs(z.num), rad |-> z.rad]]

\* p_value < significance_level: for the level 0.05 this is
\* abs(z) > 1.96 (the 97.5% point of the standard normal, to the places
\* the code itself uses for it), decided on the squares:
\* num^2 > 1.96^2 * rad.
NormalQuantileCenti == 196
IsSignificant(p) ==
  LET z == p.two_sided_tail_of
      q == Rat(NormalQuantileCenti, 100)
  IN  /\ SignificanceLevelPct = 5
      /\ RLt(RMul(RMul(q, q), z.rad), RMul(z.num, z.num))

\* mann_kendall_test(data): returns (z, p_value, trend); never raises.
mann_kendall_test(data) ==
  LET n == Len(data)
      s == MannKendallS(data)
      z == MannKendallZ(s, n)
  IN  [status |-> "ok", z |-> z, p_value |-> PValue(z),
       trend |-> TrendDirection(z)]

\* Mutant of PairSlope: the difference is not divided by the distance.
PairSlopeUndivided(data, i, j) == RInt(data[j] - data[i])

\* slope = (data[j] - data[i]) / (j - i)
PairSlope(data, i, j) == NpDivide(RInt(data[j] - data[i]), RInt(j - i))

\* The slopes appended by the inner loop of sens_slope, from j on.
RECURSIVE SlopesInner(_, _, _, _)
SlopesInner(data, i, j, slopes) ==
  IF j > Len(data) THEN slopes
  ELSE SlopesInner(data, i, j + 1, Append(slopes, PairSlope(data, i, j)))

RECURSIVE SlopesOuter(_, _, _)
SlopesOuter(data, i, slopes) ==
  IF i > Len(data) - 1 THEN slopes
  ELSE SlopesOuter(data, i + 1, SlopesInner(data, i, i + 1, slopes))

PairwiseSlopes(data) == SlopesOuter(data, 1, <<>>)

\* sens_slope(data) = np.median(slopes): nan for fewer than two points.
sens_slope(data) == NpMedian(PairwiseSlopes(data))

\* intercept = np.median(data - slope * x), x = np.arange(n).
Intercept(data, slope) ==
  NpMedian([k \in 1..Len(data) |->
              RSub(RInt(data[k]), RMul(slope, RInt(k - 1)))])

\* The radicand (n * (n + 1) * (2 * n + 1)) / (6 * n * (n - 1)) of se.
SeRadicand(n) == PyDivide(n * (n + 1) * (2 * n + 1), 6 * n * (n - 1))

\* 1.96, in hundredths.
CiFactorCenti == 196

\* analyze(data).  The ints n*(n+1)*(2n+1) and 6*n*(n-1) are divided as
\* Python ints: ZeroDivisionError for n < 2.  se = slope * sqrt(radicand)
\* is kept as its parts, and a bound of the interval as
\* base + coef * sqrt(radicand).
analyze(data) ==
  LET n == Len(data)
      mk == mann_kendall_test(data)
      slope == sens_slope(data)
      w == RMul(Rat(CiFactorCenti, 100), slope)
  IN  IF 6 * n * (n - 1) = 0
      THEN [status |-> "raise", error |-> "ZeroDivisionError"]
      ELSE [status |-> "ok",
            slope |-> slope,
            intercept |-> Intercept(data, slope),
            p_value |-> mk.p_value,
            trend_direction |-> mk.trend,
            is_significant |-> IsSignificant(mk.p_value),
            se |-> [coef |-> slope, radicand |-> SeRadicand(n)],
            confidence_interval |->
              <<[base |-> slope, coef |-> RNeg(w), radicand |-> SeRadicand(n)],
                [base |-> slope, coef |-> w, radicand |-> SeRadicand(n)]>>]

\* Mutant of NpConvolveSame: the window is centred one place to the right
\* when its length is even.
NpConvolveSameRight(x, y) ==
  LET a == IF Len(y) > Len(x) THEN y ELSE x
      v == IF Len(y) > Len(x) THEN x ELSE y
      n1 == Len(a)
      n2 == Len(v)
      nLeft == (n2 - 1) \div 2
      term(i, k) ==
        LET m == i + k - 1 - nLeft
        IN  IF m >= 1 /\ m <= n1 THEN RMul(a[m], v[n2 - k + 1]) ELSE RInt(0)
  IN  [i \in 1..n1 |-> RSum([k \in 1..n2 |-> term(i, k)])]

\* np.convolve(x, y, mode='same'): the operands are swapped when y is the
\* longer one; the output has the length of the longer operand a, and
\* out[i] = sum over k of a[i + k - len(v) // 2] * v[len(v) - 1 - k], the
\* terms whose index falls outside a left out.
NpConvolveSame(x, y) ==
  LET a == IF Len(y) > Len(x) THEN y ELSE x
      v == IF Len(y) > Len(x) THEN x ELSE y
      n1 == Len(a)
      n2 == Len(v)
      nLeft == n2 \div 2
      term(i, k) ==
        LET m == i + k - 1 - nLeft
        IN  IF m >= 1 /\ m <= n1 THEN RMul(a[m], v[n2 - k + 1]) ELSE RInt(0)
  IN  [i \in 1..n1 |-> RSum([k \in 1..n2 |-> term(i, k)])]

\* np.ones(period) / period
FlatWindow(period) == [k \in 1..period |-> NpDivide(RInt(1), RInt(period))]

\* numpy broadcasting of two 1-d shapes: equal, or one of them 1.
Broadcastable(m, n) == m = n \/ m = 1 \/ n = 1
BroadcastLen(m, n) == IF m > n THEN m ELSE n
At(s, i) == IF Len(s) = 1 THEN s[1] ELSE s[i]

\* x - y on arrays of broadcastable shapes.
NpSubtract(x, y) ==
  [i \in 1..BroadcastLen(Len(x), Len(y)) |-> RSub(At(x, i), At(y, i))]

\* np.arange(i, n, period), as 1-based positions, for the phase i (0-based).
PhaseIndices(i, n, period) == {k \in 1..n : (k - 1) % period = i}

\* seasonal after the loop "for i in range(period)": position k holds the
\* mean of detrended over the positions of its phase (k - 1) % period.
Seasonal(detrended, n, period) ==
  [k \in 1..n |->
     LET idx == PhaseIndices((k - 1) % period, n, period)
         lo == CHOOSE m \in idx : \A m2 \in idx : m <= m2
         vals == [j \in 1..Cardinality(idx) |-> detrended[lo + (j - 1) * period]]
     IN  NpMean(vals)]

\* seasonal_decompose(data, period), period >= 1.  np.convolve rejects an
\* empty data; with period > n the trend has period entries, and
\* data - trend raises ValueError (shapes (n,) and (period,)) unless n = 1,
\* where it broadcasts to period entries.
seasonal_decompose(data, period) ==
  LET n == Len(data)
      d == ToRat(data)
      trend == NpConvolveSame(d, FlatWindow(period))
      detrended == NpSubtract(d, trend)
      seasonal == Seasonal(detrended, n, period)
      residual == NpSubtract(NpSubtract(d, trend), seasonal)
  IN  IF n = 0 THEN [status |-> "raise", error |-> "ValueError"]
      ELSE IF ~Broadcastable(n, Len(trend))
      THEN [status |-> "raise", error |-> "ValueError"]
      ELSE [status |-> "ok", trend |-> trend, seasonal |-> seasonal,
            residual |-> residual]

(***************************************************************************)
(* AnomalyDetector (anomaly_detection.py).                                 *)
(***************************************************************************)
\* AnomalyDetector.__init__: contamination = 0.05, in percent.
ContaminationPct == 5

\* The dataclass Anomaly; timestamp keeps its default None.  A score is
\* kept as num / sqrt(rad).
Anomaly(index, value, score, method) ==
  [index |-> index, value |-> value, score |-> score, method |-> method,
   timestamp |-> "None"]

\* The list built by "for i, value in enumerate(data): if flagged: append",
\* from position k (1-based) on: made[k] is the record of position k, used
\* where flagged[k] holds.
RECURSIVE CollectFrom(_, _, _)
CollectFrom(k, flagged, made) ==
  IF k > Len(flagged) THEN <<>>
  ELSE (IF flagged[k] THEN <<made[k]>> ELSE <<>>)
       \o CollectFrom(k + 1, flagged, made)

\* q1, q3, iqr and the fences of detect_iqr, on a non-empty data.
IqrFences(data, multiplier) ==
  LET d == ToRat(data)
      q1 == NpPercentile(d, 25)
      q3 == NpPercentile(d, 75)
      iqr == RSub(q3, q1)
  IN  [q1 |-> q1, q3 |-> q3, iqr |-> iqr,
       lower |-> RSub(q1, RMul(multiplier, iqr)),
       upper |-> RAdd(q3, RMul(multiplier, iqr))]

\* Mutant of OutsideFences: the fences themselves count as outside.
OutsideFencesInclusive(value, lower, upper) ==
  RLe(value, lower) \/ RLe(upper, value)

\* "value < lower or value > upper"
OutsideFences(value, lower, upper) == RLt(value, lower) \/ RLt(upper, value)

\* The body of detect_iqr on a non-empty data.
IqrAnomalies(data, multiplier) ==
  LET d == ToRat(data)
      f == IqrFences(data, multiplier)
      median == NpMedian(d)
      Flagged(k) == OutsideFences(d[k], f.lower, f.upper)
      Make(k) ==
        Anomaly(k - 1, data[k],
                [num |-> NpDivide(RAbs(RSub(d[k], median)), f.iqr),
                 rad |-> RInt(1)],
                "IQR")
  IN  CollectFrom(1, [k \in 1..Len(data) |-> Flagged(k)],
                  [k \in 1..Len(data) |-> Make(k)])

\* detect_iqr(data, multiplier).  On an empty data np.percentile raises
\* IndexError (it takes the last entry of the partitioned array).
detect_iqr(data, multiplier) ==
  IF Len(data) = 0
  THEN [status |-> "raise", error |-> "IndexError"]
  ELSE [status |-> "ok", anomalies |-> IqrAnomalies(data, multiplier)]

\* Mutant of AbsDeviation: the deviation keeps its sign.
SignedDeviation(value, mean) == RSub(value, mean)

\* abs(value - mean)
AbsDeviation(value, mean) == RAbs(RSub(value, mean))

\* zscore > threshold for zscore = dev / sqrt(var), var > 0: decided by the
\* signs, and on the squares when the signs agree.
ZscoreExceeds(dev, var, threshold) ==
  LET dev2 == RMul(dev, dev)
      bound2 == RMul(RMul(threshold, threshold), var)
  IN  IF RLt(threshold, RInt(0))
      THEN RLe(RInt(0), dev) \/ RLt(dev2, bound2)
      ELSE RLt(RInt(0), dev) /\ RLt(bound2, dev2)

\* detect_zscore(data, threshold).  On an empty data mean and std are nan,
\* "std == 0" is False and the loop has nothing to visit.
detect_zscore(data, threshold) ==
  LET d == ToRat(data)
      mean == NpMean(d)
      var == NpVar(d)
      absdev(k) == AbsDeviation(d[k], mean)
      Flagged(k) == ZscoreExceeds(absdev(k), var, threshold)
      Make(k) ==
        Anomaly(k - 1, data[k], [num |-> absdev(k), rad |-> var], "Z-score")
  IN  IF Len(data) = 0 THEN [status |-> "ok", anomalies |-> <<>>]
      ELSE IF var = RInt(0) THEN [status |-> "ok", anomalies |-> <<>>]
      ELSE [status |-> "ok",
            anomalies |->
              CollectFrom(1, [k \in 1..Len(data) |-> Flagged(k)],
                          [k \in 1..Len(data) |-> Make(k)])]

\* sklearn's IsolationForest(contamination, random_state=42), fitted on
\* data: with the seed fixed, score_samples is a function of the point, and
\* seed_scores is that function on the values of data (scores are < 0).
IsolationForest(seed_scores, data) ==
  [state |-> "fitted", scores |-> seed_scores, X |-> data]

\* score_samples(data) of a fitted model.
ScoreSamples(model, data) == [i \in 1..Len(data) |-> model.scores[data[i]]]

\* fit_predict(data): offset_ is the contamination percentile of the
\* training scores, and a point is an outlier (-1) when its score is below
\* offset_.
FitPredict(model, data) ==
  LET sc == ScoreSamples(model, data)
      offset == NpPercentile(sc, ContaminationPct)
  IN  [i \in 1..Len(data) |-> IF RLt(sc[i], offset) THEN -1 ELSE 1]

\* Mutant of ForestScore: the score keeps its sign.
ForestScoreRaw(score) == [num |-> score, rad |-> RInt(1)]

\* abs(score)
ForestScore(score) == [num |-> RAbs(score), rad |-> RInt(1)]

\* The body of detect_isolation_forest once the model is fitted.
ForestAnomalies(model, data) ==
  LET predictions == FitPredict(model, data)
      scores == ScoreSamples(model, data)
      Flagged(k) == predictions[k] = -1
      Make(k) ==
        Anomaly(k - 1, data[k], ForestScore(scores[k]), "IsolationForest")
  IN  CollectFrom(1, [k \in 1..Len(data) |-> Flagged(k)],
                  [k \in 1..Len(data) |-> Make(k)])

\* detect_isolation_forest(data): the result, and the model it leaves in
\* self._isolation_forest.  The model is stored before it is fitted, and
\* fit rejects an empty data with ValueError.
detect_isolation_forest(seed_scores, data) ==
  IF Len(data) = 0
  THEN [result |-> [status |-> "raise", error |-> "ValueError"],
        model |-> [state |-> "unfitted"]]
  ELSE [result |-> [status |-> "ok",
                    anomalies |->
                      ForestAnomalies(IsolationForest(seed_scores, data), data)],
        model |-> IsolationForest(seed_scores, data)]

\* Mutant of detect_all: a vote across the methods, the "iqr" entry keeping
\* only what detect_zscore flags too.
DetectAllVoting(seed_scores, data, model) ==
  LET iq == detect_iqr(data, Rat(3, 2))
      zs == detect_zscore(data, RInt(3))
      forest == detect_isolation_forest(seed_scores, data)
      Voted(a) ==
        \E k \in 1..Len(zs.anomalies) : zs.anomalies[k].index = a.index
  IN  IF iq.status = "raise" THEN [result |-> iq, model |-> model]
      ELSE IF forest.result.status = "raise" THEN forest
      ELSE [result |-> [status |-> "ok",
                        iqr |-> SelectSeq(iq.anomalies, Voted),
                        zscore |-> zs.anomalies,
                        isolation_forest |-> forest.result.anomalies],
            model |-> forest.model]

\* detect_all(data): the three detectors in the order of the dict display;
\* an exception of one ends the call, and the later ones do not run.
detect_all(seed_scores, data, model) ==
  LET iq == detect_iqr(data, Rat(3, 2))
      zs == detect_zscore(data, RInt(3))
      forest == detect_isolation_forest(seed_scores, data)
  IN  IF iq.status = "raise" THEN [result |-> iq, model |-> model]
      ELSE IF forest.result.status = "raise" THEN forest
      ELSE [result |-> [status |-> "ok",
                        iqr |-> iq.anomalies,
                        zscore |-> zs.anomalies,
                        isolation_forest |-> forest.result.anomalies],
            model |-> forest.model]

(***************************************************************************)
(* The inputs the model draws.                                             *)
(***************************************************************************)
Values == 0..MaxVal

\* Every sequence of at most MaxLen measurements, and every longer one, by
\* up to two, of measurements 0 or 1.
ShortSeqs == UNION {[1..n -> Values] : n \in 0..MaxLen}
LongSeqs == UNION {[1..n -> {0, 1}] : n \in (MaxLen + 1)..(MaxLen + 2)}

\* The two concrete scenarios of the specification.
ScenarioOutlier == <<1, 2, 3, 4, 5, 100>>
ScenarioLinear == <<0, 1, 2, 3, 4, 5>>

\* s with x put in at position k (at the end when k is beyond it).
Inject(s, k, x) ==
  LET j == IF k > Len(s) + 1 THEN Len(s) + 1 ELSE k
  IN  SubSeq(s, 1, j - 1) \o <<x>> \o SubSeq(s, j, Len(s))

\* The extreme values the tests inject (test_anomaly_detection.py).
InjectedHigh == 10
InjectedLow == -10

\* Ordinary measurements (0 or 1, in non-decreasing order) with one
\* injected extreme value at any position, or with the high one at any
\* position and the low one in front.
BaseSeqs(lo, hi) ==
  {b \in UNION {[1..m -> {0, 1}] : m \in lo..hi} :
     \A i \in 1..(Len(b) - 1) : b[i] <= b[i + 1]}
Spikes ==
  {Inject(b, k, x) : b \in BaseSeqs(3, MaxLen + 1), k \in 1..(MaxLen + 2),
                     x \in {InjectedHigh, InjectedLow}}
DoubleSpikes ==
  {Inject(Inject(b, k, InjectedHigh), 1, InjectedLow) :
     b \in BaseSeqs(2, MaxLen), k \in 1..(MaxLen + 1)}

Inputs ==
  ShortSeqs \cup LongSeqs \cup {ScenarioOutlier, ScenarioLinear}
  \cup Spikes \cup DoubleSpikes

Periods == 1..MaxPeriod
Multipliers == {Rat(3, 2), RInt(0), RInt(-1)}
Thresholds == {RInt(-1), RInt(1), RInt(2), RInt(3)}

\* What a forest fitted with the fixed seed may make of data.  A point is
\* flagged when its score is below the contamination percentile of all the
\* scores, which for fewer than 100 / ContaminationPct points lies between
\* the two lowest scores: what matters is which value, if any, the forest
\* scores lowest.  score_samples is negative.
ScoreHigh == Rat(-1, 2)
ScoreLow == Rat(-3, 5)
ValuesOf(s) == {s[i] : i \in 1..Len(s)}
SeedScores(s) ==
  {[v \in ValuesOf(s) |-> ScoreHigh]}
  \cup {[v \in ValuesOf(s) |-> IF v = w THEN ScoreLow ELSE ScoreHigh] :
          w \in ValuesOf(s)}

(***************************************************************************)
(* State: one TrendAnalyzer and one AnomalyDetector, and a caller that     *)
(* makes one call at a time on the same data.                              *)
(***************************************************************************)
VARIABLES
  data,               \* the sequence the caller passes
  seed_scores,        \* what random_state=42 makes of data: value -> score
  isolation_forest,   \* AnomalyDetector._isolation_forest
  call,               \* the call made: method and argument
  result,             \* what the call returned or raised
  seed_fits,          \* what random_state=42 makes of each data
  threads,            \* the concurrent callers of detect_isolation_forest
  entry,              \* parallel.py: the function the caller entered
  items,              \* its argument items
  chunk_size,         \* its argument chunk_size
  func,               \* its argument func: what func does on each item
  args,               \* the items parallel_map was given
  pending,            \* the futures as_completed has not yielded yet
  yielded,            \* the indices as_completed has yielded, in order
  results,            \* the local results of parallel_map
  pool_pc,            \* the position of the call in parallel.py
  returned,           \* what the call returned or raised
  preferred_format,   \* DateParser.preferred_format
  format_cache,       \* DateParser._format_cache
  parse_call,         \* the call of DateParser.parse made last
  parse_result        \* what it returned

detectorVars == <<data, seed_scores, call, result>>
threadVars == <<seed_fits, threads>>
poolInputs == <<entry, items, chunk_size, func>>
poolVars == <<poolInputs, args, pending, yielded, results, pool_pc, returned>>
parserVars == <<preferred_format, format_cache, parse_call, parse_result>>

vars == <<detectorVars, isolation_forest, threadVars, poolVars, parserVars>>
outsideDetector == <<threadVars, poolVars, parserVars>>

\* The parts of the state a specification leaves out stay as they start.
NoThreads == seed_fits = <<>> /\ threads = <<>>
NoPool ==
  /\ entry = "none" /\ items = <<>> /\ chunk_size = 1 /\ func = <<>>
  /\ args = <<>> /\ pending = {} /\ yielded = <<>> /\ results = <<>>
  /\ pool_pc = "none" /\ returned = [status |-> "none"]
NoParser ==
  /\ preferred_format = <<>> /\ format_cache = <<>>
  /\ parse_call = [op |-> "none"] /\ parse_result = [status |-> "none"]

NoCall == [op |-> "none"]
NoResult == [status |-> "none"]

Init ==
  /\ data \in Inputs
  /\ seed_scores \in SeedScores(data)
  /\ isolation_forest = [state |-> "None"]
  /\ call = NoCall
  /\ result = NoResult
  /\ NoThreads
  /\ NoPool
  /\ NoParser

Idle == call.op = "none"

CallMannKendallTest ==
  /\ Idle
  /\ call' = [op |-> "mann_kendall_test"]
  /\ result' = mann_kendall_test(data)
  /\ UNCHANGED <<data, seed_scores, isolation_forest, outsideDetector>>

CallSensSlope ==
  /\ Idle
  /\ call' = [op |-> "sens_slope"]
  /\ result' = [status |-> "ok", slope |-> sens_slope(data)]
  /\ UNCHANGED <<data, seed_scores, isolation_forest, outsideDetector>>

CallAnalyze ==
  /\ Idle
  /\ call' = [op |-> "analyze"]
  /\ result' = analyze(data)
  /\ UNCHANGED <<data, seed_scores, isolation_forest, outsideDetector>>

CallSeasonalDecompose ==
  /\ Idle
  /\ \E period \in Periods :
       /\ call' = [op |-> "seasonal_decompose", period |-> period]
       /\ result' = seasonal_decompose(data, period)
  /\ UNCHANGED <<data, seed_scores, isolation_forest, outsideDetector>>

CallDetectIqr ==
  /\ Idle
  /\ \E multiplier \in Multipliers :
       /\ call' = [op |-> "detect_iqr", multiplier |-> multiplier]
       /\ result' = detect_iqr(data, multiplier)
  /\ UNCHANGED <<data, seed_scores, isolation_forest, outsideDetector>>

CallDetectZscore ==
  /\ Idle
  /\ \E threshold \in Thresholds :
       /\ call' = [op |-> "detect_zscore", threshold |-> threshold]
       /\ result' = detect_zscore(data, threshold)
  /\ UNCHANGED <<data, seed_scores, isolation_forest, outsideDetector>>

CallDetectIsolationForest ==
  /\ Idle
  /\ call' = [op |-> "detect_isolation_forest"]
  /\ LET out == detect_isolation_forest(seed_scores, data)
     IN  /\ result' = out.result
         /\ isolation_forest' = out.model
  /\ UNCHANGED <<data, seed_scores, outsideDetector>>

CallDetectAll ==
  /\ Idle
  /\ call' = [op |-> "detect_all"]
  /\ LET out == detect_all(seed_scores, data, isolation_forest)
     IN  /\ result' = out.result
         /\ isolation_forest' = out.model
  /\ UNCHANGED <<data, seed_scores, outsideDetector>>

\* The caller takes the result (or the exception); the detector keeps its
\* model.
Return ==
  /\ ~Idle
  /\ call' = NoCall
  /\ result' = NoResult
  /\ UNCHANGED <<data, seed_scores, isolation_forest, outsideDetector>>

Next ==
  \/ CallMannKendallTest
  \/ CallSensSlope
  \/ CallAnalyze
  \/ CallSeasonalDecompose
  \/ CallDetectIqr
  \/ CallDetectZscore
  \/ CallDetectIsolationForest
  \/ CallDetectAll
  \/ Return

Spec == Init /\ [][Next]_vars

(***************************************************************************)
(* Callers that share one AnomalyDetector (SpecThreads).  A call of        *)
(* detect_isolation_forest is three steps that each go through the field   *)
(* self._isolation_forest: the store of a new model, fit_predict, and      *)
(* score_samples with the loop and the return.  The steps of two callers   *)
(* interleave in any order.                                                *)
(***************************************************************************)
Callers == {1, 2}

\* What the callers pass: an ordinary data with one high value, one with a
\* low value, and the empty one.
ForestInputs == {<<0, 0, 0, MaxVal>>, <<MaxVal, MaxVal, 0>>, <<>>}
ForestValues == 0..MaxVal

\* The scores a fitted forest gives to every value it may be asked about.
ForestScores ==
  {[v \in ForestValues |-> ScoreHigh]}
  \cup {[v \in ForestValues |-> IF v = w THEN ScoreLow ELSE ScoreHigh] :
          w \in {0, MaxVal}}

\* random_state=42 of the IsolationForest the detector constructs.
FixedSeed == 42

\* Mutant of RandomState: no seed is fixed, and the generator has moved on
\* once a forest has been grown.
RandomStateUnfixed == IF isolation_forest.state = "None" THEN FixedSeed ELSE 0

RandomState == FixedSeed

\* "self._isolation_forest = IsolationForest(contamination, random_state=42)":
\* the object stored in the field, not yet fitted.
NewIsolationForest == [state |-> "unfitted", random_state |-> RandomState]

\* What the trees grown from random_state make of the training data d:
\* fits is what the seed of the code makes of every data; another seed
\* grows other trees, here the ones that exchange the two scores.
SeededScores(fits, random_state, d) ==
  IF random_state = FixedSeed THEN fits[d]
  ELSE [v \in DOMAIN fits[d] |->
          IF fits[d][v] = ScoreHigh THEN ScoreLow ELSE ScoreHigh]

\* model.fit(d): whatever the object was fitted on before is discarded.
FitForest(fits, model, d) ==
  [state |-> "fitted", scores |-> SeededScores(fits, model.random_state, d),
   X |-> d, random_state |-> model.random_state]

\* The loop of detect_isolation_forest over zip(predictions, scores).
ForestLoop(d, predictions, scores) ==
  LET Flagged(k) == predictions[k] = -1
      Make(k) ==
        Anomaly(k - 1, d[k], ForestScore(scores[k]), "IsolationForest")
  IN  CollectFrom(1, [k \in 1..Len(d) |-> Flagged(k)],
                  [k \in 1..Len(d) |-> Make(k)])

IdleThread == [pc |-> "idle"]

InitThreads ==
  /\ seed_fits \in [ForestInputs -> ForestScores]
  /\ threads = [t \in Callers |-> IdleThread]
  /\ isolation_forest = [state |-> "None"]
  /\ data = <<>>
  /\ seed_scores = <<>>
  /\ call = NoCall
  /\ result = NoResult
  /\ NoPool
  /\ NoParser

\* A call in progress: between its store and its return statement.
Running(t) == threads[t].pc \in {"fit_predict", "score_samples"}

\* Caller t enters detect_isolation_forest(d) and stores a new model in the
\* field (lines 71-77).  unshared records whether any other call has been
\* in progress at any time since.
StoreModel(t) ==
  /\ threads[t].pc = "idle"
  /\ \E d \in ForestInputs :
       threads' =
         [u \in Callers |->
            IF u = t
            THEN [pc |-> "fit_predict", data |-> d,
                  unshared |-> \A w \in Callers \ {t} : ~Running(w)]
            ELSE IF Running(u) THEN [threads[u] EXCEPT !.unshared = FALSE]
            ELSE threads[u]]
  /\ isolation_forest' = NewIsolationForest
  /\ UNCHANGED <<poolVars, parserVars, detectorVars, seed_fits>>

\* predictions = self._isolation_forest.fit_predict(data) (line 79), on the
\* object the field holds now; fit rejects an empty data with ValueError
\* and leaves the object as it was.
FitPredictModel(t) ==
  /\ threads[t].pc = "fit_predict"
  /\ LET d == threads[t].data
         fitted == FitForest(seed_fits, isolation_forest, d)
     IN  IF Len(d) = 0
         THEN /\ threads' =
                   [threads EXCEPT
                      ![t] = [pc |-> "done", data |-> d,
                              unshared |-> threads[t].unshared,
                              result |-> [status |-> "raise",
                                          error |-> "ValueError"]]]
              /\ UNCHANGED isolation_forest
         ELSE /\ threads' =
                   [threads EXCEPT
                      ![t] = [pc |-> "score_samples", data |-> d,
                              unshared |-> threads[t].unshared,
                              predictions |-> FitPredict(fitted, d)]]
              /\ isolation_forest' = fitted
  /\ UNCHANGED <<poolVars, parserVars, detectorVars, seed_fits>>

\* scores = self._isolation_forest.score_samples(data) (line 80), on the
\* object the field holds now, NotFittedError when that one is not fitted;
\* then the loop and the return statement (lines 82-90).
ScoreSamplesModel(t) ==
  /\ threads[t].pc = "score_samples"
  /\ LET d == threads[t].data
         out == IF isolation_forest.state = "fitted"
                THEN [status |-> "ok",
                      anomalies |->
                        ForestLoop(d, threads[t].predictions,
                                   ScoreSamples(isolation_forest, d))]
                ELSE [status |-> "raise", error |-> "NotFittedError"]
     IN  threads' =
           [threads EXCEPT
              ![t] = [pc |-> "done", data |-> d,
                      unshared |-> threads[t].unshared, result |-> out]]
  /\ UNCHANGED <<poolVars, parserVars, detectorVars, isolation_forest, seed_fits>>

\* The caller takes what its call returned or raised.
ReturnToCaller(t) ==
  /\ threads[t].pc = "done"
  /\ threads' = [threads EXCEPT ![t] = IdleThread]
  /\ UNCHANGED <<poolVars, parserVars, detectorVars, isolation_forest, seed_fits>>

NextThreads ==
  \E t \in Callers :
    \/ StoreModel(t)
    \/ FitPredictModel(t)
    \/ ScoreSamplesModel(t)
    \/ ReturnToCaller(t)

SpecThreads == InitThreads /\ [][NextThreads]_vars

(***************************************************************************)
(* parallel.py (SpecPool): one call of parallel_map, or of                 *)
(* chunked_parallel_map, which calls it.  The futures complete in any      *)
(* order, and as_completed yields them in the order they complete.         *)
(***************************************************************************)
ItemValues == {1, 2}
ItemLists == UNION {[1..n -> ItemValues] : n \in 0..MaxItems}
ChunkSizes == {-1, 0, 1, 2}

\* What func does on an item: it returns a value, raises an Exception, or
\* raises a BaseException that is no Exception (SystemExit,
\* KeyboardInterrupt).
Behaviours == {"return", "Exception", "BaseException"}
Funcs == [ItemValues -> Behaviours]

\* The value func returns for x, and str(e) of what it raises for x.
FuncValue(x) == 10 * x
ErrorText(x) == <<"str(e)", x>>

\* func(x) in a worker: what the future holds.  The worker sends every
\* BaseException back, and future.result() raises it again.
CallFunc(f, x) ==
  IF f[x] = "return" THEN [kind |-> "return", value |-> FuncValue(x)]
  ELSE [kind |-> f[x], error |-> ErrorText(x)]

\* func(chunk) for a func that maps a list item by item: the list of the
\* values, or what the first failing item raises.
RECURSIVE CallFuncOnChunk(_, _)
CallFuncOnChunk(f, chunk) ==
  IF chunk = <<>> THEN [kind |-> "return", value |-> <<>>]
  ELSE LET first == CallFunc(f, Head(chunk))
           rest == CallFuncOnChunk(f, Tail(chunk))
       IN  IF first.kind # "return" THEN first
           ELSE IF rest.kind # "return" THEN rest
           ELSE [kind |-> "return", value |-> <<first.value>> \o rest.value]

\* [items[i:i + chunk_size] for i in range(0, len(items), chunk_size)] for
\* chunk_size # 0: the range is empty for a negative step.
Chunks(list, size) ==
  IF size < 0 THEN <<>>
  ELSE [c \in 1..((Len(list) + size - 1) \div size) |->
          SubSeq(list, (c - 1) * size + 1,
                 IF c * size > Len(list) THEN Len(list) ELSE c * size)]

\* Python's None, and a value where None may stand instead.
PyNone == [none |-> TRUE]
Some(x) == [some |-> x]

\* The dataclass TaskResult.
TaskResult(index, success, res, error) ==
  [index |-> index, success |-> success, result |-> res, error |-> error]

RECURSIVE InsertByIndex(_, _)
InsertByIndex(x, s) ==
  IF s = <<>> THEN <<x>>
  ELSE IF x.index < Head(s).index THEN <<x>> \o s
  ELSE <<Head(s)>> \o InsertByIndex(x, Tail(s))

\* Mutant of SortByIndex: the results stay in the order of completion.
CompletionOrder(rs) == rs

\* results.sort(key=lambda x: x.index): ascending, stable.
RECURSIVE SortByIndex(_)
SortByIndex(rs) ==
  IF rs = <<>> THEN <<>>
  ELSE InsertByIndex(rs[Len(rs)], SortByIndex(SubSeq(rs, 1, Len(rs) - 1)))

\* The loop of chunked_parallel_map: all_results.extend(task_result.result)
\* for the successful task results, the others skipped.
RECURSIVE ExtendSuccessful(_)
ExtendSuccessful(rs) ==
  IF rs = <<>> THEN [status |-> "ok", value |-> <<>>]
  ELSE LET rest == ExtendSuccessful(Tail(rs))
       IN  IF Head(rs).success
           THEN [status |-> "ok", value |-> Head(rs).result.some \o rest.value]
           ELSE rest

InitPool ==
  /\ entry \in {"parallel_map", "chunked_parallel_map"}
  /\ items \in ItemLists
  /\ chunk_size \in IF entry = "parallel_map" THEN {1} ELSE ChunkSizes
  /\ func \in Funcs
  /\ args = IF entry = "parallel_map" THEN items ELSE <<>>
  /\ pending = {}
  /\ yielded = <<>>
  /\ results = <<>>
  /\ pool_pc = IF entry = "parallel_map" THEN "submit" ELSE "chunks"
  /\ returned = [status |-> "none"]
  /\ data = <<>>
  /\ seed_scores = <<>>
  /\ call = NoCall
  /\ result = NoResult
  /\ isolation_forest = [state |-> "None"]
  /\ NoThreads
  /\ NoParser

outsidePool == <<detectorVars, isolation_forest, threadVars, parserVars>>

\* chunked_parallel_map, line 68, and the call of parallel_map; range()
\* raises ValueError for the step 0.
MakeChunks ==
  /\ pool_pc = "chunks"
  /\ IF chunk_size = 0
     THEN /\ returned' = [status |-> "raise", error |-> "ValueError"]
          /\ pool_pc' = "done"
          /\ UNCHANGED args
     ELSE /\ args' = Chunks(items, chunk_size)
          /\ pool_pc' = "submit"
          /\ UNCHANGED returned
  /\ UNCHANGED <<poolInputs, pending, yielded, results, outsidePool>>

\* parallel_map, lines 37-46: one future per item, keyed to its index.
Submit ==
  /\ pool_pc = "submit"
  /\ pending' = 1..Len(args)
  /\ results' = <<>>
  /\ pool_pc' = "as_completed"
  /\ UNCHANGED <<poolInputs, args, yielded, returned, outsidePool>>

\* One pass of the loop over as_completed (lines 48-55): the future of
\* position i completes and is yielded.  "except Exception" does not catch
\* a BaseException, which leaves parallel_map and its caller.
Complete(i) ==
  /\ pool_pc = "as_completed"
  /\ i \in pending
  /\ LET idx == i - 1
         out == IF entry = "chunked_parallel_map"
                THEN CallFuncOnChunk(func, args[i])
                ELSE CallFunc(func, args[i])
     IN  /\ pending' = pending \ {i}
         /\ yielded' = Append(yielded, idx)
         /\ IF out.kind = "return"
            THEN /\ results' =
                      Append(results, TaskResult(idx, TRUE, Some(out.value), PyNone))
                 /\ UNCHANGED <<pool_pc, returned>>
            ELSE IF out.kind = "Exception"
            THEN /\ results' =
                      Append(results, TaskResult(idx, FALSE, PyNone, Some(out.error)))
                 /\ UNCHANGED <<pool_pc, returned>>
            ELSE /\ returned' = [status |-> "raise", error |-> out.error]
                 /\ pool_pc' = "done"
                 /\ UNCHANGED results
  /\ UNCHANGED <<poolInputs, args, outsidePool>>

\* parallel_map, lines 57-58, once as_completed is exhausted.
SortAndReturn ==
  /\ pool_pc = "as_completed"
  /\ pending = {}
  /\ results' = SortByIndex(results)
  /\ IF entry = "parallel_map"
     THEN /\ returned' = [status |-> "ok", value |-> SortByIndex(results)]
          /\ pool_pc' = "done"
     ELSE /\ pool_pc' = "extend"
          /\ UNCHANGED returned
  /\ UNCHANGED <<poolInputs, args, pending, yielded, outsidePool>>

\* chunked_parallel_map, lines 72-77.
ExtendAll ==
  /\ pool_pc = "extend"
  /\ returned' = ExtendSuccessful(results)
  /\ pool_pc' = "done"
  /\ UNCHANGED <<poolInputs, args, pending, yielded, results, outsidePool>>

NextPool ==
  \/ MakeChunks
  \/ Submit
  \/ \E i \in 1..MaxItems : Complete(i)
  \/ SortAndReturn
  \/ ExtendAll

SpecPool == InitPool /\ [][NextPool]_vars

(***************************************************************************)
(* date_parser.py (SpecParser): one DateParser and the calls of parse made *)
(* on it.  A format is the sequence of its characters.  A date string is   *)
(* its tokens (runs of digits, month names), the literal characters        *)
(* between them, and whether white space surrounds it.                     *)
(***************************************************************************)
\* DateParser.FORMATS, in the order of the list.
FORMATS ==
  << <<"%", "Y", "-", "%", "m", "-", "%", "d">>,
     <<"%", "d", "/", "%", "m", "/", "%", "Y">>,
     <<"%", "m", "/", "%", "d", "/", "%", "Y">>,
     <<"%", "Y", "%", "m", "%", "d">>,
     <<"%", "d", "-", "%", "m", "-", "%", "Y">>,
     <<"%", "Y", "/", "%", "m", "/", "%", "d">>,
     <<"%", "d", " ", "%", "b", " ", "%", "Y">>,
     <<"%", "d", " ", "%", "B", " ", "%", "Y">>,
     <<"%", "b", " ", "%", "d", ",", " ", "%", "Y">>,
     <<"%", "B", " ", "%", "d", ",", " ", "%", "Y">> >>

\* No format: preferred_format None, and a string the cache does not hold.
NoFormat == <<>>

\* datetime(year, month, day)
Datetime(year, month, day) == [year |-> year, month |-> month, day |-> day]

\* The directives of a format (the characters after "%"), and its literal
\* characters.
RECURSIVE Directives(_)
Directives(f) ==
  IF f = <<>> THEN <<>>
  ELSE IF Head(f) = "%" THEN <<f[2]>> \o Directives(SubSeq(f, 3, Len(f)))
  ELSE Directives(Tail(f))

RECURSIVE Literals(_)
Literals(f) ==
  IF f = <<>> THEN <<>>
  ELSE IF Head(f) = "%" THEN Literals(SubSeq(f, 3, Len(f)))
  ELSE <<Head(f)>> \o Literals(Tail(f))

\* A run of len digits with the value val, and a month name.
Digits(len, val) == [kind |-> "digits", len |-> len, val |-> val]
MonthName(kind, val) == [kind |-> kind, len |-> 0, val |-> val]

\* A date string.
DateString(pad, tokens, lit) == [pad |-> pad, tokens |-> tokens, lit |-> lit]

\* date_str.strip()
Strip(s) == [s EXCEPT !.pad = ""]

\* Whether a token matches a directive of strptime: %d one or two digits
\* 1..31, %m one or two digits 1..12, %Y four digits, %b and %B a month
\* name, abbreviated or full.
TokenMatches(tok, directive) ==
  IF directive = "d"
  THEN tok.kind = "digits" /\ tok.len \in {1, 2} /\ tok.val \in 1..31
  ELSE IF directive = "m"
  THEN tok.kind = "digits" /\ tok.len \in {1, 2} /\ tok.val \in 1..12
  ELSE IF directive = "Y" THEN tok.kind = "digits" /\ tok.len = 4
  ELSE IF directive = "b" THEN tok.kind = "abbr"
  ELSE tok.kind = "full"

DaysInMonth(year, month) ==
  IF month = 2
  THEN (IF year % 4 = 0 /\ (year % 100 # 0 \/ year % 400 = 0) THEN 29 ELSE 28)
  ELSE IF month \in {4, 6, 9, 11} THEN 30 ELSE 31

\* The token of s that the directive c of the format f reads.
Field(s, f, c) ==
  LET ds == Directives(f)
      k == CHOOSE k \in 1..Len(ds) : ds[k] = c
  IN  s.tokens[k].val

\* datetime.strptime(s, f): the datetime, or ValueError when s does not
\* match f (white space around s, other literals, a token that is no such
\* field) or names no day of the calendar.
Strptime(s, f) ==
  LET ds == Directives(f)
      year == Field(s, f, "Y")
      month == IF \E k \in 1..Len(ds) : ds[k] = "m" THEN Field(s, f, "m")
               ELSE IF \E k \in 1..Len(ds) : ds[k] = "b" THEN Field(s, f, "b")
               ELSE Field(s, f, "B")
      day == Field(s, f, "d")
  IN  IF /\ s.pad = ""
         /\ s.lit = Literals(f)
         /\ Len(s.tokens) = Len(ds)
         /\ \A k \in 1..Len(ds) : TokenMatches(s.tokens[k], ds[k])
         /\ day <= DaysInMonth(year, month)
      THEN [status |-> "ok", datetime |-> Datetime(year, month, day)]
      ELSE [status |-> "ValueError"]

\* [f for f in formats if c in f[:3]] and [... if c not in f[:3]], from
\* position k of formats on.
RECURSIVE FormatsWith(_, _, _, _)
FormatsWith(formats, c, wanted, k) ==
  IF k > Len(formats) THEN <<>>
  ELSE LET f == formats[k]
           has == \E i \in 1..3 : i <= Len(f) /\ f[i] = c
       IN  (IF has = wanted THEN <<f>> ELSE <<>>)
           \o FormatsWith(formats, c, wanted, k + 1)

\* DateParser._get_ordered_formats(day_first)
GetOrderedFormats(day_first) ==
  IF day_first
  THEN FormatsWith(FORMATS, "d", TRUE, 1) \o FormatsWith(FORMATS, "d", FALSE, 1)
  ELSE FormatsWith(FORMATS, "m", TRUE, 1) \o FormatsWith(FORMATS, "m", FALSE, 1)

\* The loop "for fmt in formats" of parse, from position k on: the first
\* format that parses s, or None.
RECURSIVE TryFormats(_, _, _)
TryFormats(s, formats, k) ==
  IF k > Len(formats) THEN [value |-> PyNone, fmt |-> NoFormat]
  ELSE IF Strptime(s, formats[k]).status = "ok"
  THEN [value |-> Strptime(s, formats[k]).datetime, fmt |-> formats[k]]
  ELSE TryFormats(s, formats, k + 1)

\* parse past the cache (lines 43-61), s stripped: the value returned and
\* the format to remember, none when nothing parses s.
ParseUncached(preferred, s, day_first) ==
  IF preferred # NoFormat /\ Strptime(s, preferred).status = "ok"
  THEN [value |-> Strptime(s, preferred).datetime, fmt |-> preferred]
  ELSE TryFormats(s, GetOrderedFormats(day_first), 1)

\* "if date_str in self._format_cache: fmt = self._format_cache[date_str]"
CachedFormat(cache, s) == IF s \in DOMAIN cache THEN cache[s] ELSE NoFormat

\* DateParser.parse(date_str, day_first): the value returned and the cache
\* left.  A cached format parsed the same string before, so strptime does
\* not raise on it.
parse(cache, preferred, date_str, day_first) ==
  LET s == Strip(date_str)
      fmt == CachedFormat(cache, s)
      fresh == ParseUncached(preferred, s, day_first)
  IN  IF fmt # NoFormat
      THEN [value |-> Strptime(s, fmt).datetime, cache |-> cache]
      ELSE IF fresh.fmt # NoFormat
      THEN [value |-> fresh.value,
            cache |-> [x \in DOMAIN cache \cup {s} |->
                         IF x = s THEN fresh.fmt ELSE cache[x]]]
      ELSE [value |-> PyNone, cache |-> cache]

\* The strings the callers pass: "01/02/2020", "13/02/2020", "02/13/2020",
\* "31/02/2020", "2020-01-02" and "1 Jan 2020", bare or with white space
\* around them.
Slashed(a, b) ==
  DateString("", <<Digits(2, a), Digits(2, b), Digits(4, 2020)>>, <<"/", "/">>)
BareDateStrings ==
  {Slashed(1, 2), Slashed(13, 2), Slashed(2, 13), Slashed(31, 2),
   DateString("", <<Digits(4, 2020), Digits(2, 1), Digits(2, 2)>>,
              <<"-", "-">>),
   DateString("", <<Digits(1, 1), MonthName("abbr", 1), Digits(4, 2020)>>,
              <<" ", " ">>)}
DateStrings ==
  BareDateStrings \cup {[s EXCEPT !.pad = " "] : s \in BareDateStrings}

PreferredFormats == {NoFormat, FORMATS[2], FORMATS[3]}

InitParser ==
  /\ preferred_format \in PreferredFormats
  /\ format_cache = <<>>
  /\ parse_call = [op |-> "none"]
  /\ parse_result = [status |-> "none"]
  /\ data = <<>>
  /\ seed_scores = <<>>
  /\ call = NoCall
  /\ result = NoResult
  /\ isolation_forest = [state |-> "None"]
  /\ NoThreads
  /\ NoPool

Parse ==
  /\ \E date_str \in DateStrings, day_first \in BOOLEAN :
       LET out == parse(format_cache, preferred_format, date_str, day_first)
       IN  /\ parse_call' = [op |-> "parse", date_str |-> date_str,
                             day_first |-> day_first]
           /\ parse_result' = [status |-> "ok", value |-> out.value]
           /\ format_cache' = out.cache
  /\ UNCHANGED <<preferred_format, detectorVars, isolation_forest,
                 threadVars, poolVars>>

NextParser == Parse

SpecParser == InitParser /\ [][NextParser]_vars

(***************************************************************************)
(* Properties.                                                             *)
(***************************************************************************)
N == Len(data)
Called(op) == call.op = op
Ok == result.status = "ok"
Raised == result.status = "raise"

StrictlyIncreasing(s) == \A i \in 1..(Len(s) - 1) : s[i] < s[i + 1]
StrictlyDecreasing(s) == \A i \in 1..(Len(s) - 1) : s[i] > s[i + 1]
IsLinear(s) == \A i \in 1..Len(s) : s[i] = s[1] + (s[2] - s[1]) * (i - 1)
IsConstant(s) == \A i \in 1..Len(s) : s[i] = s[1]

\* The 0-based positions a list of anomalies names.
Indices(anomalies) == {anomalies[k].index : k \in 1..Len(anomalies)}

\* C1: for every data of length n >= 1 and every period >= 1,
\* seasonal_decompose returns trend, seasonal and residual of length n with
\* trend[i] + seasonal[i] + residual[i] = data[i] at every index.
C1_DecompositionSumsToData ==
  (Called("seasonal_decompose") /\ N >= 1) =>
    /\ Ok
    /\ Len(result.trend) = N
    /\ Len(result.seasonal) = N
    /\ Len(result.residual) = N
    /\ \A i \in 1..N :
         RAdd(RAdd(result.trend[i], result.seasonal[i]), result.residual[i])
           = RInt(data[i])

\* C2 as stated: on a strictly increasing data of length n >= 2 the
\* statistic is n(n-1)/2 and the direction "increasing"; on a strictly
\* decreasing one -n(n-1)/2 and "decreasing".
C2_MonotoneDirection ==
  (Called("mann_kendall_test") /\ N >= 2) =>
    /\ StrictlyIncreasing(data) =>
         /\ MannKendallS(data) = (N * (N - 1)) \div 2
         /\ result.trend = "increasing"
    /\ StrictlyDecreasing(data) =>
         /\ MannKendallS(data) = -((N * (N - 1)) \div 2)
         /\ result.trend = "decreasing"

\* C2 amended: the statistic is as stated for n >= 2; the direction is as
\* stated for n >= 3, and "no trend" for n = 2, where s = +-1 makes z = 0.
C2_MonotoneDirectionFrom3 ==
  (Called("mann_kendall_test") /\ N >= 2) =>
    /\ StrictlyIncreasing(data) =>
         /\ MannKendallS(data) = (N * (N - 1)) \div 2
         /\ result.trend = IF N >= 3 THEN "increasing" ELSE "no trend"
    /\ StrictlyDecreasing(data) =>
         /\ MannKendallS(data) = -((N * (N - 1)) \div 2)
         /\ result.trend = IF N >= 3 THEN "decreasing" ELSE "no trend"

C2_Witness ==
  /\ Called("mann_kendall_test")
  /\ N >= 3
  /\ StrictlyDecreasing(data)
  /\ result.trend = "decreasing"

\* C3: on a linear data, data[i] = a + b*i, of length n >= 2, sens_slope
\* returns b exactly, and analyze reports the slope b and the intercept a;
\* on [0,1,2,3,4,5] the slope is 1 and the intercept 0.
C3_SenSlopeOfLinear ==
  /\ (Called("sens_slope") /\ N >= 2 /\ IsLinear(data)) =>
       result.slope = RInt(data[2] - data[1])
  /\ (Called("analyze") /\ N >= 2 /\ IsLinear(data)) =>
       /\ Ok
       /\ result.slope = RInt(data[2] - data[1])
       /\ result.intercept = RInt(data[1])
  /\ (Called("analyze") /\ data = ScenarioLinear) =>
       /\ result.slope = RInt(1)
       /\ result.intercept = RInt(0)
  /\ (Called("sens_slope") /\ data = ScenarioLinear) => result.slope = RInt(1)

C3_Witness ==
  /\ Called("analyze")
  /\ data = ScenarioLinear
  /\ result.slope = RInt(1)
  /\ result.intercept = RInt(0)

\* C4: on [1,2,3,4,5,100] detect_iqr with multiplier 1.5 has Q1 = 2.25,
\* Q3 = 4.75, IQR = 2.5 and the upper fence 8.5, and flags index 5 and no
\* other; detect_zscore with threshold 2 flags index 5.
C4_OutlierScenario ==
  /\ (Called("detect_iqr") /\ call.multiplier = Rat(3, 2)
        /\ data = ScenarioOutlier) =>
       /\ IqrFences(data, call.multiplier).q1 = Rat(9, 4)
       /\ IqrFences(data, call.multiplier).q3 = Rat(19, 4)
       /\ IqrFences(data, call.multiplier).iqr = Rat(5, 2)
       /\ IqrFences(data, call.multiplier).upper = Rat(17, 2)
       /\ Ok
       /\ Indices(result.anomalies) = {5}
       /\ Len(result.anomalies) = 1
  /\ (Called("detect_zscore") /\ call.threshold = RInt(2)
        /\ data = ScenarioOutlier) =>
       /\ Ok
       /\ 5 \in Indices(result.anomalies)

C4_Witness ==
  /\ Called("detect_iqr")
  /\ call.multiplier = Rat(3, 2)
  /\ data = ScenarioOutlier
  /\ Indices(result.anomalies) = {5}

\* The values at the positions P lie far outside the range of all the
\* others: beyond it by more than four times its width.
Extreme(s, P) ==
  LET others == {s[i] : i \in (1..Len(s)) \ P}
      hi == CHOOSE x \in others : \A y \in others : y <= x
      lo == CHOOSE x \in others : \A y \in others : x <= y
  IN  /\ P # {}
      /\ others # {}
      /\ \A p \in P : \/ s[p] > hi + 4 * (hi - lo)
                      \/ s[p] < lo - 4 * (hi - lo)

FlagsAll(P) == \A p \in P : (p - 1) \in Indices(result.anomalies)

C7_ZeroIqrScoresInfinite ==
  (Called("detect_iqr") /\ N >= 1 /\ ~IsConstant(data)
     /\ IqrFences(data, call.multiplier).iqr = RInt(0)) =>
    /\ Ok
    /\ Indices(result.anomalies) =
         {i - 1 : i \in {j \in 1..N : RInt(data[j]) # NpMedian(ToRat(data))}}
    /\ \A k \in 1..Len(result.anomalies) :
         result.anomalies[k].score = [num |-> PosInf, rad |-> RInt(1)]

C7_Witness ==
  /\ Called("detect_iqr")
  /\ N >= 1
  /\ ~IsConstant(data)
  /\ IqrFences(data, call.multiplier).iqr = RInt(0)
  /\ Len(result.anomalies) >= 1
  /\ result.anomalies[1].score.num = PosInf

Detectors ==
  {"detect_iqr", "detect_zscore", "detect_isolation_forest", "detect_all"}

\* C8: each detector rejects a data of length < 4 with an error and
\* returns no result.
C8_ShortInputRejected ==
  (call.op \in Detectors /\ N < 4) => Raised

TrendMethods ==
  {"mann_kendall_test", "sens_slope", "analyze", "seasonal_decompose"}

\* C9: each method of the trend analyzer rejects a data of length < 2 with
\* an error instead of returning a result.
C9_ShortSeriesRejected ==
  (call.op \in TrendMethods /\ N < 2) => Raised

\* A score num / sqrt(rad) is a number >= 0 (+infinity included, nan not).
ScoreNonNegative(score) ==
  /\ score.num # NaN
  /\ score.num[1] >= 0
  /\ RLt(RInt(0), score.rad)

\* The list is one a detector with the tag method may return for data.
WellFormed(anomalies, method) ==
  /\ \A k \in 1..Len(anomalies) :
       /\ anomalies[k].index >= 0
       /\ anomalies[k].index < N
       /\ anomalies[k].value = data[anomalies[k].index + 1]
       /\ ScoreNonNegative(anomalies[k].score)
       /\ anomalies[k].method = method
  /\ \A k \in 1..(Len(anomalies) - 1) :
       anomalies[k].index < anomalies[k + 1].index

\* C10: every Anomaly a detector returns for a data of length n has
\* 0 <= index < n, value = data[index], score >= 0 and the tag of its
\* detector, and the indices of one list are strictly increasing.
C10_AnomalyRecords ==
  /\ (Called("detect_iqr") /\ Ok) => WellFormed(result.anomalies, "IQR")
  /\ (Called("detect_zscore") /\ Ok) =>
       WellFormed(result.anomalies, "Z-score")
  /\ (Called("detect_isolation_forest") /\ Ok) =>
       WellFormed(result.anomalies, "IsolationForest")
  /\ (Called("detect_all") /\ Ok) =>
       /\ WellFormed(result.iqr, "IQR")
       /\ WellFormed(result.zscore, "Z-score")
       /\ WellFormed(result.isolation_forest, "IsolationForest")

C10_Witness ==
  /\ Called("detect_all")
  /\ Ok
  /\ Len(result.iqr) >= 2
  /\ Len(result.isolation_forest) = 1

\* C11: detect_all returns a mapping with exactly the three entries "iqr",
\* "zscore" and "isolation_forest", each equal to what detect_iqr with
\* multiplier 1.5, detect_zscore with threshold 3.0 and
\* detect_isolation_forest return on the same data on their own; it returns
\* for every non-empty data, and raises only where detect_iqr alone does.
C11_DetectAllIsTheThreeDetectors ==
  Called("detect_all") =>
    LET iq == detect_iqr(data, Rat(3, 2))
        zs == detect_zscore(data, RInt(3))
        forest == detect_isolation_forest(seed_scores, data).result
    IN  /\ N >= 1 => Ok
        /\ Raised => (iq.status = "raise" /\ result = iq)
        /\ Ok =>
             /\ DOMAIN result = {"status", "iqr", "zscore", "isolation_forest"}
             /\ iq.status = "ok" /\ result.iqr = iq.anomalies
             /\ zs.status = "ok" /\ result.zscore = zs.anomalies
             /\ forest.status = "ok"
             /\ result.isolation_forest = forest.anomalies

C11_Witness ==
  /\ Called("detect_all")
  /\ Ok
  /\ data = ScenarioOutlier
  /\ Indices(result.iqr) = {5}
  /\ result.zscore = <<>>

\* What detect_isolation_forest returns or raises for d when nothing else
\* touches the detector.
RunAlone(d) == detect_isolation_forest(seed_fits[d], d).result

Finished(t) == threads[t].pc = "done"

\* C12: a call of detect_isolation_forest(d) during which no other call is
\* in progress returns what the call on d returns on a detector nothing
\* else touches, whatever calls on whatever data were made before it.
C12_SameDataSameResult ==
  \A t \in Callers :
    (Finished(t) /\ threads[t].unshared) =>
      threads[t].result = RunAlone(threads[t].data)

\* Caller 1 has its anomaly while the field holds a model of a later call
\* on another data, made once the call of 1 had finished.
C12_Witness ==
  /\ Finished(1)
  /\ threads[1].unshared
  /\ threads[1].result.status = "ok"
  /\ Len(threads[1].result.anomalies) = 1
  /\ Finished(2)
  /\ threads[2].unshared
  /\ threads[2].data # threads[1].data
  /\ threads[2].result.status = "ok"
  /\ isolation_forest.state = "fitted"
  /\ isolation_forest.X = threads[2].data

\* C13: under every interleaving of the steps of two concurrent calls of
\* detect_isolation_forest on one detector, each call returns what it
\* returns when run alone.
C13_ConcurrentCallsIndependent ==
  \A t \in Callers :
    Finished(t) => threads[t].result = RunAlone(threads[t].data)

\* The pairs i < j of positions of s, and those that rise, fall and tie.
Pairs(s) == {q \in (1..Len(s)) \X (1..Len(s)) : q[1] < q[2]}
Rising(s) == {q \in Pairs(s) : s[q[2]] > s[q[1]]}
Falling(s) == {q \in Pairs(s) : s[q[2]] < s[q[1]]}

\* C14: mann_kendall_test accumulates S = (pairs i < j with
\* data[j] > data[i]) - (pairs with data[j] < data[i]), ties counting 0;
\* z is (S-1)/sqrt(varS) for S > 0, (S+1)/sqrt(varS) for S < 0 and 0 for
\* S = 0, with varS = n(n-1)(2n+5)/18; the direction is "increasing" iff
\* z > 0, "decreasing" iff z < 0 and "no trend" otherwise.
C14_MannKendallStatistic ==
  Called("mann_kendall_test") =>
    LET s == Cardinality(Rising(data)) - Cardinality(Falling(data))
        varS == Rat(N * (N - 1) * (2 * N + 5), 18)
    IN  /\ Ok
        /\ MannKendallS(data) = s
        /\ s > 0 => result.z = [num |-> RInt(s - 1), rad |-> varS]
        /\ s < 0 => result.z = [num |-> RInt(s + 1), rad |-> varS]
        /\ s = 0 => result.z = [num |-> RInt(0), rad |-> RInt(1)]
        /\ RLt(RInt(0), result.z.rad)
        /\ result.trend = "increasing" <=> RLt(RInt(0), result.z.num)
        /\ result.trend = "decreasing" <=> RLt(result.z.num, RInt(0))
        /\ result.trend = "no trend" <=> result.z.num = RInt(0)

C14_Witness ==
  /\ Called("mann_kendall_test")
  /\ Rising(data) # {}
  /\ Pairs(data) \ (Rising(data) \cup Falling(data)) # {}
  /\ Cardinality(Falling(data)) > Cardinality(Rising(data)) + 1
  /\ result.z.num = RInt(Cardinality(Rising(data)) - Cardinality(Falling(data)) + 1)
  /\ result.trend = "decreasing"

\* C15: for every data of length n >= 2 analyze returns the interval
\* (slope - 1.96*se, slope + 1.96*se), se = slope * sqrt(n(n+1)(2n+1) /
\* (6n(n-1))), with lower <= slope <= upper, for negative slopes too.  A
\* bound base + coef * sqrt(radicand), radicand > 0, with base = slope is
\* <= slope iff coef <= 0 and >= slope iff coef >= 0.
C15_IntervalContainsSlope ==
  (Called("analyze") /\ N >= 2) =>
    LET lower == result.confidence_interval[1]
        upper == result.confidence_interval[2]
        radicand == Rat(N * (N + 1) * (2 * N + 1), 6 * N * (N - 1))
    IN  /\ Ok
        /\ lower = [base |-> result.slope,
                    coef |-> RNeg(RMul(Rat(196, 100), result.slope)),
                    radicand |-> radicand]
        /\ upper = [base |-> result.slope,
                    coef |-> RMul(Rat(196, 100), result.slope),
                    radicand |-> radicand]
        /\ RLt(RInt(0), radicand)
        /\ RLe(lower.coef, RInt(0))
        /\ RLe(RInt(0), upper.coef)

\* The sum of f over the finite set S.
RECURSIVE SumOver(_, _)
SumOver(f, S) ==
  IF S = {} THEN RInt(0)
  ELSE LET x == CHOOSE x \in S : TRUE
       IN  RAdd(f[x], SumOver(f, S \ {x}))

\* (1/p) * the sum of data[k] for k from i - floor(p/2) to
\* i + floor((p-1)/2) inside 0..n-1 (i and k 0-based).
WindowMean(s, p, i) ==
  LET ks == {k \in 0..(Len(s) - 1) :
               k >= i - (p \div 2) /\ k <= i + ((p - 1) \div 2)}
  IN  RMul(Rat(1, p), SumOver([k \in ks |-> RInt(s[k + 1])], ks))

\* The mean of data[k] - trend[k] over the k in 0..n-1 with the phase of i.
PhaseMean(s, trend, p, i) ==
  LET ks == {k \in 0..(Len(s) - 1) : k % p = i % p}
  IN  RMul(Rat(1, Cardinality(ks)),
           SumOver([k \in ks |-> RSub(RInt(s[k + 1]), trend[k + 1])], ks))

\* C16: for 1 <= p <= n the trend of seasonal_decompose is the same-length
\* convolution with a flat window, trend[i] = (1/p) * sum of data[k] for k
\* from i - floor(p/2) to i + floor((p-1)/2), the k outside 0..n-1
\* counting 0 and the divisor staying p; seasonal[i] is the mean of
\* data[k] - trend[k] over the k with k mod p = i mod p, so that
\* seasonal[i] = seasonal[i+p].
C16_TrendAndSeasonal ==
  (Called("seasonal_decompose") /\ call.period <= N) =>
    /\ Ok
    /\ Len(result.trend) = N
    /\ Len(result.seasonal) = N
    /\ \A i \in 0..(N - 1) :
         /\ result.trend[i + 1] = WindowMean(data, call.period, i)
         /\ result.seasonal[i + 1] =
              PhaseMean(data, result.trend, call.period, i)
         /\ i + call.period <= N - 1 =>
              result.seasonal[i + 1] = result.seasonal[i + call.period + 1]

C16_Witness ==
  /\ Called("seasonal_decompose")
  /\ call.period = 2
  /\ N >= 4
  /\ Ok
  /\ result.trend[1] # RInt(data[1])
  /\ result.seasonal[1] # result.seasonal[2]
  /\ result.seasonal[1] = result.seasonal[3]

PoolDone == pool_pc = "done"

\* The TaskResult the claim describes for position k (1-based) of items.
ExpectedTaskResult(k) ==
  IF func[items[k]] = "return"
  THEN TaskResult(k - 1, TRUE, Some(FuncValue(items[k])), PyNone)
  ELSE TaskResult(k - 1, FALSE, PyNone, Some(ErrorText(items[k])))

OneResultPerItem ==
  /\ returned.status = "ok"
  /\ Len(returned.value) = Len(items)
  /\ \A k \in 1..Len(items) : returned.value[k] = ExpectedTaskResult(k)

\* C17 as stated: for every completion order parallel_map returns one
\* TaskResult per item, result k with index k, holding func(items[k]) and
\* success=True, or success=False and the error text when the task raised;
\* no failure of a task ends the call.
C17_OneResultPerItem ==
  (entry = "parallel_map" /\ PoolDone) => OneResultPerItem

\* C17 amended: so it is when every task returns or raises an Exception; a
\* task that raises a BaseException that is no Exception ends parallel_map
\* with that exception.
C17_OneResultPerItemExceptBaseException ==
  (entry = "parallel_map" /\ PoolDone) =>
    IF \A k \in 1..Len(items) : func[items[k]] # "BaseException"
    THEN OneResultPerItem
    ELSE /\ returned.status = "raise"
         /\ \E k \in 1..Len(items) :
              /\ func[items[k]] = "BaseException"
              /\ returned.error = ErrorText(items[k])

C17_Witness ==
  /\ entry = "parallel_map"
  /\ PoolDone
  /\ yielded = <<2, 0, 1>>
  /\ returned.status = "ok"
  /\ returned.value[1].success
  /\ ~returned.value[2].success
  /\ returned.value[3].index = 2

\* The concatenation of func(chunk) over the consecutive chunks of
\* chunk_size, and whether func raises on one of them.
SomeChunkRaises ==
  \E c \in 1..Len(Chunks(items, chunk_size)) :
    CallFuncOnChunk(func, Chunks(items, chunk_size)[c]).kind # "return"

RECURSIVE ConcatOutputs(_)
ConcatOutputs(cs) ==
  IF cs = <<>> THEN <<>>
  ELSE CallFuncOnChunk(func, Head(cs)).value \o ConcatOutputs(Tail(cs))

\* C18: for chunk_size >= 1 and every completion order,
\* chunked_parallel_map returns the concatenation, in chunk order, of
\* func(chunk) over the consecutive chunks of chunk_size; when func raises
\* on a chunk the call raises and returns no shorter list.
C18_NoChunkSilentlyMissing ==
  (entry = "chunked_parallel_map" /\ chunk_size >= 1 /\ PoolDone) =>
    /\ \A c \in 1..Len(args) :
         /\ Len(args[c]) >= 1
         /\ Len(args[c]) <= chunk_size
         /\ \A j \in 1..Len(args[c]) :
              args[c][j] = items[(c - 1) * chunk_size + j]
    /\ IF SomeChunkRaises THEN returned.status = "raise"
       ELSE /\ returned.status = "ok"
            /\ returned.value = ConcatOutputs(args)
            /\ Len(returned.value) = Len(items)

\* What a parser just constructed with the same preferred_format returns
\* for the arguments of the call made last.
FreshParserValue ==
  parse(<<>>, preferred_format, parse_call.date_str, parse_call.day_first).value

\* C19: every call parse(date_str, day_first) on a DateParser, whatever
\* calls it has served before, returns what a fresh parser with the same
\* preferred_format returns for these arguments; "01/02/2020" parsed with
\* day_first=False is the 2nd of January even after it has been parsed
\* day-first.
C19_CacheTransparent ==
  parse_call.op = "parse" =>
    /\ parse_result.value = FreshParserValue
    /\ (preferred_format = NoFormat /\ Strip(parse_call.date_str) = Slashed(1, 2)
          /\ ~parse_call.day_first) =>
         parse_result.value = Datetime(2020, 1, 2)

=============================================================================
